---------------------------- MODULE Spec2Model ----------------------------
(***************************************************************************)
(* A model of fnordlib (src/src/fnordlib.py): the FnordBus wire protocol   *)
(* and its lock, the FnordLight / FnordCluster composite dispatch and the  *)
(* FnordFader colour interpolation.                                        *)
(*                                                                         *)
(* Four specifications share the module:                                   *)
(*   Spec        several threads calling sync / fade_rgb / stop on one     *)
(*               FnordBus, one con.write() per step, from the start of     *)
(*               FnordBus.__init__ on;                                     *)
(*   SpecCluster one caller driving FnordClusters whose members live on    *)
(*               two buses (each bus handler runs to its end in one step,  *)
(*               as nothing else runs);                                    *)
(*   SpecCache   one caller using setRGB / getRGB / update / black of      *)
(*               buses, lights and clusters, and getFnordLight;            *)
(*   SpecFader   FnordFader.addColor / getColor.                           *)
(*                                                                         *)
(* The transport (pyserial) is the recording sink the bus writes to: wire  *)
(* is the sequence of bytes handed to con.write(), flushAt the wire        *)
(* lengths at which FnordBus.flush() ran.                                  *)
(***************************************************************************)
EXTENDS Integers, Sequences, FiniteSets, TLC

VARIABLES
    wire,       \* [Buses -> Seq(0..255)]: bytes handed to con.write()
    flushAt,    \* [Buses -> Seq(Nat)]: Len(wire) at every FnordBus.flush()
    lock,       \* [Buses -> BOOLEAN]: FnordBus.lock is held
    phase,      \* position of FnordBus.__init__: "new", "sync", "stop", "done"
    pc,         \* [Threads -> position inside the bus handler]
    cur,        \* [Threads -> the call the thread is executing]
    pos,        \* [Threads -> number of con.write() calls the handler made]
    log,        \* history: the calls in the order they took the lock
    nCalls,     \* number of calls issued after construction
    cluster,    \* [ClusterIds -> Seq(Target)]: FnordCluster.cluster
    last,       \* history: the last FnordCluster operation and its outcome
    nOps,       \* number of FnordCluster operations issued
    colors,     \* FnordFader.colors
    query,      \* the argument of the last getColor call
    drawn,      \* the value getColor worked with (after random.random())
    result,     \* what the last getColor call returned or raised
    busRGB,     \* [Buses -> <<red, green, blue>>] of each FnordBus
    lightRGB,   \* [Buses -> [1..LIGHTCOUNT -> <<red, green, blue>>]]: bus.lights[x - 1]
    clusterRGB, \* [ClusterIds -> <<red, green, blue>>] of each FnordCluster
    staged      \* history: per object the arguments of its last setRGB call

busVars == <<wire, flushAt, lock>>
threadVars == <<phase, pc, cur, pos, log, nCalls>>
clusterVars == <<cluster, last, nOps>>
faderVars == <<colors, query, drawn, result>>
cacheVars == <<busRGB, lightRGB, clusterRGB, staged>>
vars == <<wire, flushAt, lock, phase, pc, cur, pos, log, nCalls,
          cluster, last, nOps, colors, query, drawn, result,
          busRGB, lightRGB, clusterRGB, staged>>

-----------------------------------------------------------------------------
(* Program constants *)

LIGHTCOUNT == 20
Escape == 27
SyncEscapes == 15
CmdFade == 1
CmdStop == 8
ZerosDefault == 8
StopZeros == 12
DefaultSyncAddr == 0
DefaultStep == 5
DefaultDelay == 0
DefaultStopAddr == 255
DefaultFading == 1
ChrLimit == 256

(* Bounds of the model *)

MaxCalls == 2
MaxColors == 2
MaxOps == 4
MaxMembers == 3
RecursionLimit == 3
MaxCacheOps == 2
GridBits == 2

Buses == {1, 2}
ClusterIds == {1, 2}
TheBus == 1
Threads == {"main", "t1", "t2"}
MainThread == "main"

-----------------------------------------------------------------------------
(* Optional arguments: <<>> is an omitted argument, <<v>> a given one. *)

Omitted == <<>>
Given(v) == <<v>>
ArgOr(arg, default) == IF arg = Omitted THEN default ELSE arg[1]

(* chr(v) raises ValueError unless v is in range(256). *)
ChrOk(v) == v >= 0 /\ v < ChrLimit

-----------------------------------------------------------------------------
(* The arguments of con.write( chr(.) ), in the order each handler makes   *)
(* the calls.                                                              *)

Zeros(count) == [x \in 1..count |-> 0]

(* Mutant: one escape byte short. *)
SyncOutShort(addr) == [x \in 1..(SyncEscapes - 1) |-> Escape] \o <<addr>>

SyncOut(addr) == [x \in 1..SyncEscapes |-> Escape] \o <<addr>>

(* Mutant: step and delay written in the other order. *)
FadeOutSwapped(addr, r, g, b, step, delay) ==
    <<addr, CmdFade, delay, step, r, g, b>> \o Zeros(ZerosDefault)

FadeOut(addr, r, g, b, step, delay) ==
    <<addr, CmdFade, step, delay, r, g, b>> \o Zeros(ZerosDefault)

(* Mutant: stop padded like fade, with zeros() left at its default count. *)
StopOutShortPadding(addr, fading) == <<addr, CmdStop, fading>> \o Zeros(ZerosDefault)

StopOut(addr, fading) == <<addr, CmdStop, fading>> \o Zeros(StopZeros)

(* A call of a bus handler with its arguments as the caller passed them:  *)
(* <<handler, addr, <<r, g, b>>, step, delay, fading>>.                    *)
SyncCall(addr) == <<"sync", addr, <<>>, Omitted, Omitted, Omitted>>
FadeCall(addr, rgb, step, delay) == <<"fade", Given(addr), rgb, step, delay, Omitted>>
StopCall(addr, fading) == <<"stop", addr, <<>>, Omitted, Omitted, fading>>
NoCall == <<"none", Omitted, <<>>, Omitted, Omitted, Omitted>>

OpOf(call) == call[1]
AddrOf(call) == call[2]
RgbOf(call) == call[3]
StepOf(call) == call[4]
DelayOf(call) == call[5]
FadingOf(call) == call[6]

(* The handler's write list with the defaults of its signature filled in. *)
WriteList(call) ==
    CASE OpOf(call) = "sync" -> SyncOut(ArgOr(AddrOf(call), DefaultSyncAddr))
      [] OpOf(call) = "fade" ->
            FadeOut(AddrOf(call)[1], RgbOf(call)[1], RgbOf(call)[2], RgbOf(call)[3],
                    ArgOr(StepOf(call), DefaultStep), ArgOr(DelayOf(call), DefaultDelay))
      [] OpOf(call) = "stop" ->
            StopOut(ArgOr(AddrOf(call), DefaultStopAddr),
                    ArgOr(FadingOf(call), DefaultFading))
      [] OTHER -> <<>>

-----------------------------------------------------------------------------
(* Inputs *)

AddrInputs == {Omitted, Given(3)}
FadingInputs == {Omitted, Given(0)}
FadeInputs ==
    { FadeCall(3, <<10, 20, 30>>, Omitted, Omitted),
      FadeCall(255, <<200, 0, 128>>, Given(7), Given(9)),
      FadeCall(3, <<10, 20, 30>>, Given(256), Omitted),
      FadeCall(3, <<10, 20, 30>>, Given(7), Given(-1)),
      FadeCall(3, <<10, 300, 30>>, Omitted, Given(9)) }

-----------------------------------------------------------------------------
(* Spec: threads on one bus *)

InitBuses ==
    /\ wire = [b \in Buses |-> <<>>]
    /\ flushAt = [b \in Buses |-> <<>>]
    /\ lock = [b \in Buses |-> FALSE]

InitThreads ==
    /\ phase = "new"
    /\ pc = [t \in Threads |-> "idle"]
    /\ cur = [t \in Threads |-> NoCall]
    /\ pos = [t \in Threads |-> 0]
    /\ log = <<>>
    /\ nCalls = 0

IdleCluster ==
    /\ cluster = <<>>
    /\ last = <<>>
    /\ nOps = 0

IdleFader ==
    /\ colors = <<>>
    /\ query = Omitted
    /\ drawn = 0
    /\ result = <<"none", <<>>>>

(* The class attributes red = green = blue = 0 of FnordBus, FnordLight and *)
(* FnordCluster, read until an instance assigns its own. staged[1], [2],  *)
(* [3] follow busRGB, lightRGB and clusterRGB.                            *)
NoColour == <<0, 0, 0>>

InitCache ==
    /\ busRGB = [b \in Buses |-> NoColour]
    /\ lightRGB = [b \in Buses |-> [x \in 1..LIGHTCOUNT |-> NoColour]]
    /\ clusterRGB = [c \in ClusterIds |-> NoColour]
    /\ staged = << [b \in Buses |-> NoColour],
                   [b \in Buses |-> [x \in 1..LIGHTCOUNT |-> NoColour]],
                   [c \in ClusterIds |-> NoColour] >>

Init == InitBuses /\ InitThreads /\ IdleCluster /\ IdleFader /\ InitCache

(* A thread enters a handler: its next statement is self.lock.acquire(). *)
Enter(t, call) ==
    /\ pc[t] = "idle"
    /\ pc' = [pc EXCEPT ![t] = "acquire"]
    /\ cur' = [cur EXCEPT ![t] = call]
    /\ pos' = [pos EXCEPT ![t] = 0]

(* FnordBus.__init__: self.sync() *)
CtorSync ==
    /\ phase = "new"
    /\ Enter(MainThread, SyncCall(Omitted))
    /\ phase' = "sync"
    /\ UNCHANGED <<busVars, log, nCalls, clusterVars, faderVars, cacheVars>>

(* Mutant: a constructor that leaves out self.stop(). *)
CtorWithoutStop ==
    /\ phase = "sync"
    /\ pc[MainThread] = "idle"
    /\ phase' = "stop"
    /\ UNCHANGED <<busVars, pc, cur, pos, log, nCalls, clusterVars, faderVars, cacheVars>>

(* FnordBus.__init__: self.stop(), once self.sync() has returned *)
CtorStop ==
    /\ phase = "sync"
    /\ Enter(MainThread, StopCall(Omitted, Omitted))
    /\ phase' = "stop"
    /\ UNCHANGED <<busVars, log, nCalls, clusterVars, faderVars, cacheVars>>

(* FnordBus.__init__ returns: from here on callers hold the bus. *)
CtorReturn ==
    /\ phase = "stop"
    /\ pc[MainThread] = "idle"
    /\ phase' = "done"
    /\ UNCHANGED <<busVars, pc, cur, pos, log, nCalls, clusterVars, faderVars, cacheVars>>

Call(t, call) ==
    /\ phase = "done"
    /\ nCalls < MaxCalls
    /\ Enter(t, call)
    /\ nCalls' = nCalls + 1
    /\ UNCHANGED <<busVars, phase, log, clusterVars, faderVars, cacheVars>>

CallSync(t, addr) == Call(t, SyncCall(addr))

CallFade(t, call) == Call(t, call)

CallStop(t, addr, fading) == Call(t, StopCall(addr, fading))

(* Mutant: a handler that enters without waiting for the lock. *)
AcquireWithoutWaiting(t) ==
    /\ pc[t] = "acquire"
    /\ lock' = [lock EXCEPT ![TheBus] = TRUE]
    /\ pc' = [pc EXCEPT ![t] = "write"]
    /\ log' = Append(log, <<t, cur[t], Len(wire[TheBus]), "run">>)
    /\ UNCHANGED <<wire, flushAt, phase, cur, pos, nCalls, clusterVars, faderVars, cacheVars>>

(* self.lock.acquire(): blocks while the lock is held. *)
Acquire(t) ==
    /\ pc[t] = "acquire"
    /\ ~lock[TheBus]
    /\ lock' = [lock EXCEPT ![TheBus] = TRUE]
    /\ pc' = [pc EXCEPT ![t] = "write"]
    /\ log' = Append(log, <<t, cur[t], Len(wire[TheBus]), "run">>)
    /\ UNCHANGED <<wire, flushAt, phase, cur, pos, nCalls, clusterVars, faderVars, cacheVars>>

(* A log entry: <<thread, call, Len(wire) when it took the lock, "run" or  *)
(* how the handler was left ("ok", "raised")>>.                            *)
LogThread(e) == e[1]
LogCall(e) == e[2]
LogStart(e) == e[3]
LogRet(e) == e[4]

(* The log entry of the call thread t is executing. *)
EntryOf(t) == CHOOSE k \in DOMAIN log : LogThread(log[k]) = t /\ LogRet(log[k]) = "run"

(* self.con.write( chr(v) ) with v in range(256) *)
Write(t) ==
    /\ pc[t] = "write"
    /\ pos[t] < Len(WriteList(cur[t]))
    /\ ChrOk(WriteList(cur[t])[pos[t] + 1])
    /\ wire' = [wire EXCEPT ![TheBus] = Append(@, WriteList(cur[t])[pos[t] + 1])]
    /\ pos' = [pos EXCEPT ![t] = @ + 1]
    /\ UNCHANGED <<flushAt, lock, phase, pc, cur, log, nCalls, clusterVars, faderVars, cacheVars>>

(* chr(v) raises ValueError: the handler is left at once, the release of   *)
(* the lock at its end is not reached.                                     *)
WriteRaises(t) ==
    /\ pc[t] = "write"
    /\ pos[t] < Len(WriteList(cur[t]))
    /\ ~ChrOk(WriteList(cur[t])[pos[t] + 1])
    /\ pc' = [pc EXCEPT ![t] = "idle"]
    /\ cur' = [cur EXCEPT ![t] = NoCall]
    /\ pos' = [pos EXCEPT ![t] = 0]
    /\ log' = [log EXCEPT ![EntryOf(t)][4] = "raised"]
    /\ UNCHANGED <<busVars, phase, nCalls, clusterVars, faderVars, cacheVars>>

(* self.flush() *)
Flush(t) ==
    /\ pc[t] = "write"
    /\ pos[t] = Len(WriteList(cur[t]))
    /\ flushAt' = [flushAt EXCEPT ![TheBus] = Append(@, Len(wire[TheBus]))]
    /\ pc' = [pc EXCEPT ![t] = "release"]
    /\ UNCHANGED <<wire, lock, phase, cur, pos, log, nCalls, clusterVars, faderVars, cacheVars>>

(* self.lock.release(), and the handler returns *)
Release(t) ==
    /\ pc[t] = "release"
    /\ lock' = [lock EXCEPT ![TheBus] = FALSE]
    /\ pc' = [pc EXCEPT ![t] = "idle"]
    /\ cur' = [cur EXCEPT ![t] = NoCall]
    /\ pos' = [pos EXCEPT ![t] = 0]
    /\ log' = [log EXCEPT ![EntryOf(t)][4] = "ok"]
    /\ UNCHANGED <<wire, flushAt, phase, nCalls, clusterVars, faderVars, cacheVars>>

Next ==
    \/ CtorSync
    \/ CtorStop
    \/ CtorReturn
    \/ \E t \in Threads, addr \in AddrInputs : CallSync(t, addr)
    \/ \E t \in Threads, call \in FadeInputs : CallFade(t, call)
    \/ \E t \in Threads, addr \in AddrInputs, fading \in FadingInputs :
          CallStop(t, addr, fading)
    \/ \E t \in Threads : Acquire(t)
    \/ \E t \in Threads : Write(t)
    \/ \E t \in Threads : WriteRaises(t)
    \/ \E t \in Threads : Flush(t)
    \/ \E t \in Threads : Release(t)

Spec == Init /\ [][Next]_vars

-----------------------------------------------------------------------------
(* SpecFader: FnordFader *)

(* Python floats are modelled as exact fractions k / Den. With Den a power *)
(* of two and channels below 2^8 every product and sum getColor forms is   *)
(* exact in binary floating point too.                                     *)
Den == 2 ^ GridBits

ColorInputs == {<<0, 0, 0>>, <<255, 255, 255>>, <<10, 200, 77>>}

(* getColor's argument as a numerator over Den: -Den is the default -1.    *)
ValueInputs == {Omitted} \cup {Given(k) : k \in (-Den - 1)..(Den + 1)}

(* random.random() returns a float in [0.0, 1.0). *)
RandomValues == 0..(Den - 1)

(* math.floor and math.ceil of num / Den, and int() of it (towards zero). *)
Floor(num) == num \div Den
Ceil(num) == -((-num) \div Den)
Trunc(num) == IF num >= 0 THEN num \div Den ELSE -((-num) \div Den)

(* seq[i] of a Python list: IndexError unless -len <= i < len. *)
PyIndexOk(seq, i) == i >= -Len(seq) /\ i < Len(seq)
PyIndex(seq, i) == IF i >= 0 THEN seq[i + 1] ELSE seq[Len(seq) + i + 1]

(* Mutant: the index range taken as 0..len. *)
PositionOverLen(value, n) == value * n

(* position = value * (len(self.colors) - 1), as a numerator over Den *)
Position(value, n) == value * (n - 1)

(* Mutant: the weights the usual way round. *)
BlendUsual(low, high, amount) == Trunc(low * (Den - amount) + high * amount)

(* int( low * amount + high * (1 - amount) ), amount a numerator over Den *)
Blend(low, high, amount) == Trunc(low * amount + high * (Den - amount))

(* getColor from the line after the random draw on: <<"returned", colour>> *)
(* or <<"raised", <<>>>> for the IndexError of self.colors[.].             *)
ColorAt(value) ==
    LET position == Position(value, Len(colors))
        lower == Floor(position)
        upper == Ceil(position)
        amount == position - lower * Den
    IN  IF PyIndexOk(colors, lower) /\ PyIndexOk(colors, upper)
            THEN LET low == PyIndex(colors, lower)
                     high == PyIndex(colors, upper)
                 IN  <<"returned", <<Blend(low[1], high[1], amount),
                                     Blend(low[2], high[2], amount),
                                     Blend(low[3], high[3], amount)>>>>
            ELSE <<"raised", <<>>>>

(* The buses once FnordBus.__init__ has returned. *)
ConstructedBuses ==
    /\ wire = [b \in Buses |-> SyncOut(DefaultSyncAddr)
                                \o StopOut(DefaultStopAddr, DefaultFading)]
    /\ flushAt = [b \in Buses |-> <<SyncEscapes + 1,
                                     SyncEscapes + 1 + 3 + StopZeros>>]
    /\ lock = [b \in Buses |-> FALSE]

InitFader ==
    /\ colors = <<>>
    /\ query = Omitted
    /\ drawn = 0
    /\ result = <<"none", <<>>>>

IdleThreads ==
    /\ phase = "done"
    /\ pc = [t \in Threads |-> "idle"]
    /\ cur = [t \in Threads |-> NoCall]
    /\ pos = [t \in Threads |-> 0]
    /\ log = <<>>
    /\ nCalls = 0

FaderInit == ConstructedBuses /\ IdleThreads /\ IdleCluster /\ InitFader /\ InitCache

(* addColor(color); result then no longer describes the palette. *)
AddColor(color) ==
    /\ Len(colors) < MaxColors
    /\ colors' = Append(colors, color)
    /\ query' = Omitted
    /\ drawn' = 0
    /\ result' = <<"none", <<>>>>
    /\ UNCHANGED <<busVars, threadVars, clusterVars, cacheVars>>

(* getColor(value) with value inside [0, 1] *)
GetColor(value) ==
    /\ ArgOr(value, -Den) # -Den
    /\ ArgOr(value, -Den) >= 0
    /\ ArgOr(value, -Den) <= Den
    /\ query' = value
    /\ drawn' = value[1]
    /\ result' = ColorAt(value[1])
    /\ UNCHANGED <<colors, busVars, threadVars, clusterVars, cacheVars>>

(* getColor() and getColor(value) with value outside [0, 1]: the value is  *)
(* replaced by random.random().                                            *)
GetColorRandom(value, random) ==
    /\ \/ ArgOr(value, -Den) = -Den
       \/ ArgOr(value, -Den) < 0
       \/ ArgOr(value, -Den) > Den
    /\ query' = value
    /\ drawn' = random
    /\ result' = ColorAt(random)
    /\ UNCHANGED <<colors, busVars, threadVars, clusterVars, cacheVars>>

FaderNext ==
    \/ \E color \in ColorInputs : AddColor(color)
    \/ \E value \in ValueInputs : GetColor(value)
    \/ \E value \in ValueInputs, random \in RandomValues : GetColorRandom(value, random)

SpecFader == FaderInit /\ [][FaderNext]_vars

-----------------------------------------------------------------------------
(* SpecCluster: one caller, FnordClusters over the lights of two buses *)

(* Targets: <<"light", bus, number>> is bus.lights[number],                *)
(* <<"cluster", 0, id>> a FnordCluster.                                    *)
Light(b, n) == <<"light", b, n>>
ClusterRef(c) == <<"cluster", 0, c>>
IsLight(target) == target[1] = "light"
BusOf(target) == target[2]
NumberOf(target) == target[3]

TargetInputs ==
    {Light(1, 3), Light(1, 7), Light(2, 3)} \cup {ClusterRef(c) : c \in ClusterIds}

(* The arguments of FnordCluster.fade_rgb: <<<<r, g, b>>, step, delay>> *)
ClusterFadeInputs ==
    { <<<<10, 20, 30>>, Omitted, Omitted>>,
      <<<<200, 0, 128>>, Given(7), Given(9)>>,
      <<<<10, 20, 30>>, Given(256), Omitted>> }

(* A bus handler run from its first statement to the point it is left, by  *)
(* a caller that is alone. st is <<wire, flushAt, lock, outcome>>. With    *)
(* the lock held lock.acquire() never returns ("blocked"); a chr() that    *)
(* raises leaves the handler with the lock held ("raised").                *)
LeadingOk(out) ==
    LET bad == {k \in 1..Len(out) : ~ChrOk(out[k])}
    IN  IF bad = {} THEN Len(out)
        ELSE (CHOOSE k \in bad : \A j \in bad : k <= j) - 1

RunHandler(st, b, out) ==
    IF st[3][b] THEN <<st[1], st[2], st[3], "blocked">>
    ELSE IF LeadingOk(out) = Len(out)
        THEN <<[st[1] EXCEPT ![b] = @ \o out],
               [st[2] EXCEPT ![b] = Append(@, Len(st[1][b]) + Len(out))],
               st[3], "ok">>
        ELSE <<[st[1] EXCEPT ![b] = @ \o SubSeq(out, 1, LeadingOk(out))],
               st[2],
               [st[3] EXCEPT ![b] = TRUE], "raised">>

(* Mutant: a light that forwards the colour only. *)
LightFadeColourOnly(st, light, rgb, step, delay) ==
    RunHandler(st, BusOf(light),
               FadeOut(NumberOf(light), rgb[1], rgb[2], rgb[3], DefaultStep, DefaultDelay))

(* FnordLight.fade_rgb *)
LightFade(st, light, rgb, step, delay) ==
    RunHandler(st, BusOf(light),
               FadeOut(NumberOf(light), rgb[1], rgb[2], rgb[3], step, delay))

(* Mutant: a loop that goes on with the next member after a failure and   *)
(* reports the first failure at its end.                                   *)
RECURSIVE MembersFadeOn(_, _, _, _, _, _, _)
MembersFadeOn(st, members, i, rgb, step, delay, depth) ==
    IF i > Len(members) THEN st
    ELSE LET member == members[i]
             fresh == <<st[1], st[2], st[3], "ok">>
             after ==
                 IF IsLight(member) THEN LightFade(fresh, member, rgb, step, delay)
                 ELSE IF depth >= RecursionLimit
                     THEN <<st[1], st[2], st[3], "recursion">>
                     ELSE MembersFadeOn(fresh, cluster[NumberOf(member)], 1,
                                        rgb, step, delay, depth + 1)
             kept == IF st[4] # "ok" THEN <<after[1], after[2], after[3], st[4]>>
                     ELSE after
         IN  MembersFadeOn(kept, members, i + 1, rgb, step, delay, depth)

(* FnordCluster.fade_rgb: the loop over self.cluster from member i on, at  *)
(* nesting depth `depth`. An exception ends the loop and every enclosing   *)
(* one. The interpreter's recursion limit is met at the entry of the       *)
(* nested FnordCluster.fade_rgb.                                           *)
RECURSIVE MembersFade(_, _, _, _, _, _, _)
MembersFade(st, members, i, rgb, step, delay, depth) ==
    IF i > Len(members) \/ st[4] # "ok" THEN st
    ELSE LET member == members[i]
             after ==
                 IF IsLight(member) THEN LightFade(st, member, rgb, step, delay)
                 ELSE IF depth >= RecursionLimit
                     THEN <<st[1], st[2], st[3], "recursion">>
                     ELSE MembersFade(st, cluster[NumberOf(member)], 1,
                                      rgb, step, delay, depth + 1)
         IN  MembersFade(after, members, i + 1, rgb, step, delay, depth)

(* Mutant: list.remove that drops the last item equal to x. *)
ListRemoveLast(seq, x) ==
    IF \E k \in DOMAIN seq : seq[k] = x
        THEN LET final == CHOOSE k \in DOMAIN seq :
                              seq[k] = x /\ \A j \in (k + 1)..Len(seq) : seq[j] # x
             IN  <<SubSeq(seq, 1, final - 1) \o SubSeq(seq, final + 1, Len(seq)), "ok">>
        ELSE <<seq, "raised">>

(* Mutant: list.remove that drops the last member when there is no match. *)
ListRemoveOrPop(seq, x) ==
    IF \E k \in DOMAIN seq : seq[k] = x
        THEN LET first == CHOOSE k \in DOMAIN seq :
                              seq[k] = x /\ \A j \in 1..(k - 1) : seq[j] # x
             IN  <<SubSeq(seq, 1, first - 1) \o SubSeq(seq, first + 1, Len(seq)), "ok">>
        ELSE <<SubSeq(seq, 1, Len(seq) - 1), "raised">>

(* list.remove(x): <<the list without the first item equal to x, "ok">>,   *)
(* or ValueError and the list as it was.                                   *)
ListRemove(seq, x) ==
    IF \E k \in DOMAIN seq : seq[k] = x
        THEN LET first == CHOOSE k \in DOMAIN seq :
                              seq[k] = x /\ \A j \in 1..(k - 1) : seq[j] # x
             IN  <<SubSeq(seq, 1, first - 1) \o SubSeq(seq, first + 1, Len(seq)), "ok">>
        ELSE <<seq, "raised">>

(* last: <<operation, cluster, argument, outcome, the wire lengths and the *)
(* member lists before it, whether it repeats the operation before it>>    *)
NoOp == <<"none", 0, <<>>, "ok", <<0, 0>>, <<>>, FALSE>>
Done(op, c, arg, outcome) ==
    <<op, c, arg, outcome, <<Len(wire[1]), Len(wire[2])>>, cluster,
      <<op, c, arg, outcome>> = <<last[1], last[2], last[3], last[4]>>>>

InitCluster ==
    /\ cluster = [c \in ClusterIds |-> <<>>]
    /\ last = NoOp
    /\ nOps = 0

ClusterInit == ConstructedBuses /\ IdleThreads /\ InitCluster /\ IdleFader /\ InitCache

(* The caller is still running: no call of it is stuck in lock.acquire(). *)
CallerRuns == last[4] # "blocked" /\ nOps < MaxOps

(* FnordCluster.registerLight *)
RegisterLight(c, target) ==
    /\ CallerRuns
    /\ Len(cluster[c]) < MaxMembers
    /\ cluster' = [cluster EXCEPT ![c] = Append(@, target)]
    /\ last' = Done("register", c, target, "ok")
    /\ nOps' = nOps + 1
    /\ UNCHANGED <<busVars, threadVars, faderVars, cacheVars>>

(* FnordCluster.removeLight *)
RemoveLight(c, target) ==
    /\ CallerRuns
    /\ cluster' = [cluster EXCEPT ![c] = ListRemove(@, target)[1]]
    /\ last' = Done("remove", c, target, ListRemove(cluster[c], target)[2])
    /\ nOps' = nOps + 1
    /\ UNCHANGED <<busVars, threadVars, faderVars, cacheVars>>

(* FnordCluster.fade_rgb *)
ClusterFade(c, args) ==
    LET st == MembersFade(<<wire, flushAt, lock, "ok">>, cluster[c], 1, args[1],
                          ArgOr(args[2], DefaultStep), ArgOr(args[3], DefaultDelay), 1)
    IN  /\ CallerRuns
        /\ wire' = st[1]
        /\ flushAt' = st[2]
        /\ lock' = st[3]
        /\ last' = Done("fade", c, args, st[4])
        /\ nOps' = nOps + 1
        /\ UNCHANGED <<cluster, threadVars, faderVars, cacheVars>>

ClusterNext ==
    \/ \E c \in ClusterIds, target \in TargetInputs : RegisterLight(c, target)
    \/ \E c \in ClusterIds, target \in TargetInputs : RemoveLight(c, target)
    \/ \E c \in ClusterIds, args \in ClusterFadeInputs : ClusterFade(c, args)

SpecCluster == ClusterInit /\ [][ClusterNext]_vars

-----------------------------------------------------------------------------
(* SpecCache: one caller, the colours stored in buses, lights and clusters *)

(* Objects: a FnordBus is <<"bus", b, 0>>, next to Light and ClusterRef. *)
BusRef(b) == <<"bus", b, 0>>
IsBus(obj) == obj[1] = "bus"

CacheObjects == {BusRef(1), Light(1, 3), Light(2, 3), ClusterRef(1), ClusterRef(2)}
RgbInputs == {<<10, 20, 30>>, <<200, 0, 128>>}
LightFadeInputs ==
    { <<<<200, 0, 128>>, Given(7), Given(9)>>,
      <<<<10, 20, 30>>, Given(256), Omitted>> }
NumberInputs == {-LIGHTCOUNT - 1, -LIGHTCOUNT, -1, 0, 3, LIGHTCOUNT - 1, LIGHTCOUNT}

(* Member lists registerLight calls build: none, and a cluster holding a   *)
(* light and a second cluster that holds that light again.                 *)
Memberships ==
    { <<<<>>, <<>>>>,
      <<<<Light(1, 3), ClusterRef(2)>>, <<Light(2, 3), Light(1, 3)>>>> }

(* self.lights of FnordBus b: FnordLight(self, x) for x in                 *)
(* range(LIGHTCOUNT)                                                       *)
Lights(b) == [x \in 1..LIGHTCOUNT |-> Light(b, x - 1)]

(* (self.red, self.green, self.blue) of an object *)
RGBOf(obj) ==
    IF IsBus(obj) THEN busRGB[BusOf(obj)]
    ELSE IF IsLight(obj) THEN lightRGB[BusOf(obj)][NumberOf(obj) + 1]
    ELSE clusterRGB[NumberOf(obj)]

(* self.red = r; self.green = g; self.blue = b on obj, in the stores       *)
(* <<of buses, of lights, of clusters>>                                    *)
Stored(stores, obj, rgb) ==
    IF IsBus(obj) THEN <<[stores[1] EXCEPT ![BusOf(obj)] = rgb], stores[2], stores[3]>>
    ELSE IF IsLight(obj)
        THEN <<stores[1],
               [stores[2] EXCEPT ![BusOf(obj)][NumberOf(obj) + 1] = rgb],
               stores[3]>>
        ELSE <<stores[1], stores[2], [stores[3] EXCEPT ![NumberOf(obj)] = rgb]>>

UpdateAddr == 255
DefaultBlackAddr == 255

(* FnordBus.update *)
BusUpdate(st, b) ==
    RunHandler(st, b, FadeOut(UpdateAddr, busRGB[b][1], busRGB[b][2], busRGB[b][3],
                              DefaultStep, DefaultDelay))

(* Mutant: a light that sends the colour of its bus. *)
LightUpdateBusColour(st, light) ==
    BusUpdate(st, BusOf(light))

(* FnordLight.update *)
LightUpdate(st, light) ==
    RunHandler(st, BusOf(light),
               FadeOut(NumberOf(light), RGBOf(light)[1], RGBOf(light)[2], RGBOf(light)[3],
                       DefaultStep, DefaultDelay))

(* FnordCluster.update *)
ClusterUpdate(st, c) ==
    MembersFade(st, cluster[c], 1, clusterRGB[c], DefaultStep, DefaultDelay, 1)

(* FnordBus.black *)
BusBlack(st, b, addr) ==
    RunHandler(st, b, FadeOut(ArgOr(addr, DefaultBlackAddr), 0, 0, 0,
                              DefaultStep, DefaultDelay))

(* Mutant: a light whose black() goes to the whole bus. *)
LightBlackBroadcast(st, light) ==
    BusBlack(st, BusOf(light), Omitted)

(* FnordLight.black *)
LightBlack(st, light) ==
    BusBlack(st, BusOf(light), Given(NumberOf(light)))

(* FnordCluster.black: the loop over self.cluster from member i on; a      *)
(* nested FnordCluster runs its own loop.                                  *)
RECURSIVE MembersBlack(_, _, _, _)
MembersBlack(st, members, i, depth) ==
    IF i > Len(members) \/ st[4] # "ok" THEN st
    ELSE LET member == members[i]
             after ==
                 IF IsLight(member) THEN LightBlack(st, member)
                 ELSE IF depth >= RecursionLimit
                     THEN <<st[1], st[2], st[3], "recursion">>
                     ELSE MembersBlack(st, cluster[NumberOf(member)], 1, depth + 1)
         IN  MembersBlack(after, members, i + 1, depth)

(* last in SpecCache: <<operation, object, argument, outcome, <<wire,      *)
(* flushAt>> and <<busRGB, lightRGB, clusterRGB>> before it, what it       *)
(* returned>>                                                              *)
CacheDone(op, obj, arg, outcome, ret) ==
    <<op, obj, arg, outcome, <<wire, flushAt>>, <<busRGB, lightRGB, clusterRGB>>, ret>>

NoReturn == <<>>

CacheInit ==
    /\ ConstructedBuses /\ IdleThreads /\ IdleFader /\ InitCache
    /\ cluster \in Memberships
    /\ last = CacheDone("none", BusRef(TheBus), <<>>, "ok", NoReturn)
    /\ nOps = 0

(* The caller is still running; MaxCacheOps bounds its calls that write. *)
CacheCallerRuns == last[4] # "blocked"
CacheCallerWrites == CacheCallerRuns /\ nOps < MaxCacheOps

(* Mutant: setRGB assigning to the class. *)
SetRGBOnClass(obj, rgb) ==
    /\ CacheCallerWrites
    /\ busRGB' = IF IsBus(obj) THEN [b \in Buses |-> rgb] ELSE busRGB
    /\ lightRGB' = IF IsLight(obj)
                      THEN [b \in Buses |-> [x \in 1..LIGHTCOUNT |-> rgb]]
                      ELSE lightRGB
    /\ clusterRGB' = IF IsBus(obj) \/ IsLight(obj) THEN clusterRGB
                        ELSE [c \in ClusterIds |-> rgb]
    /\ staged' = Stored(staged, obj, rgb)
    /\ last' = CacheDone("setRGB", obj, rgb, "ok", NoReturn)
    /\ nOps' = nOps + 1
    /\ UNCHANGED <<busVars, threadVars, cluster, faderVars>>

(* setRGB of FnordBus, FnordLight and FnordCluster *)
SetRGB(obj, rgb) ==
    /\ CacheCallerWrites
    /\ busRGB' = Stored(<<busRGB, lightRGB, clusterRGB>>, obj, rgb)[1]
    /\ lightRGB' = Stored(<<busRGB, lightRGB, clusterRGB>>, obj, rgb)[2]
    /\ clusterRGB' = Stored(<<busRGB, lightRGB, clusterRGB>>, obj, rgb)[3]
    /\ staged' = Stored(staged, obj, rgb)
    /\ last' = CacheDone("setRGB", obj, rgb, "ok", NoReturn)
    /\ nOps' = nOps + 1
    /\ UNCHANGED <<busVars, threadVars, cluster, faderVars>>

(* getRGB of FnordBus, FnordLight and FnordCluster *)
GetRGB(obj) ==
    /\ CacheCallerRuns
    /\ last' = CacheDone("getRGB", obj, <<>>, "ok", RGBOf(obj))
    /\ UNCHANGED <<busVars, threadVars, cluster, nOps, faderVars, cacheVars>>

(* FnordBus.getFnordLight *)
GetFnordLight(b, number) ==
    /\ CacheCallerRuns
    /\ last' = IF PyIndexOk(Lights(b), number)
                  THEN CacheDone("getFnordLight", BusRef(b), number, "ok",
                                 PyIndex(Lights(b), number))
                  ELSE CacheDone("getFnordLight", BusRef(b), number, "raised", NoReturn)
    /\ UNCHANGED <<busVars, threadVars, cluster, nOps, faderVars, cacheVars>>

(* A call that ran bus handlers and left the buses as st. *)
Ran(op, obj, arg, st) ==
    /\ CacheCallerWrites
    /\ wire' = st[1]
    /\ flushAt' = st[2]
    /\ lock' = st[3]
    /\ last' = CacheDone(op, obj, arg, st[4], NoReturn)
    /\ nOps' = nOps + 1

Buses0 == <<wire, flushAt, lock, "ok">>

(* update of FnordBus, FnordLight and FnordCluster *)
Update(obj) ==
    /\ Ran("update", obj, <<>>,
           IF IsBus(obj) THEN BusUpdate(Buses0, BusOf(obj))
           ELSE IF IsLight(obj) THEN LightUpdate(Buses0, obj)
           ELSE ClusterUpdate(Buses0, NumberOf(obj)))
    /\ UNCHANGED <<threadVars, cluster, faderVars, cacheVars>>

(* Mutant: black() that also stores black as the object's colour. *)
BlackStoresBlack(obj, addr) ==
    /\ IsBus(obj) \/ addr = Omitted
    /\ Ran("black", obj, addr,
           IF IsBus(obj) THEN BusBlack(Buses0, BusOf(obj), addr)
           ELSE IF IsLight(obj) THEN LightBlack(Buses0, obj)
           ELSE MembersBlack(Buses0, cluster[NumberOf(obj)], 1, 1))
    /\ busRGB' = Stored(<<busRGB, lightRGB, clusterRGB>>, obj, NoColour)[1]
    /\ lightRGB' = Stored(<<busRGB, lightRGB, clusterRGB>>, obj, NoColour)[2]
    /\ clusterRGB' = Stored(<<busRGB, lightRGB, clusterRGB>>, obj, NoColour)[3]
    /\ UNCHANGED <<threadVars, cluster, faderVars, staged>>

(* black of FnordBus (which takes an address), FnordLight and FnordCluster *)
Black(obj, addr) ==
    /\ IsBus(obj) \/ addr = Omitted
    /\ Ran("black", obj, addr,
           IF IsBus(obj) THEN BusBlack(Buses0, BusOf(obj), addr)
           ELSE IF IsLight(obj) THEN LightBlack(Buses0, obj)
           ELSE MembersBlack(Buses0, cluster[NumberOf(obj)], 1, 1))
    /\ UNCHANGED <<threadVars, cluster, faderVars, cacheVars>>

(* FnordLight.fade_rgb, called on a light *)
FadeLight(light, args) ==
    /\ Ran("fade", light, args,
           LightFade(Buses0, light, args[1],
                     ArgOr(args[2], DefaultStep), ArgOr(args[3], DefaultDelay)))
    /\ UNCHANGED <<threadVars, cluster, faderVars, cacheVars>>

CacheNext ==
    \/ \E obj \in CacheObjects, rgb \in RgbInputs : SetRGB(obj, rgb)
    \/ \E obj \in CacheObjects : GetRGB(obj)
    \/ \E number \in NumberInputs : GetFnordLight(TheBus, number)
    \/ \E obj \in CacheObjects : Update(obj)
    \/ \E obj \in CacheObjects, addr \in AddrInputs : Black(obj, addr)
    \/ \E light \in {obj \in CacheObjects : IsLight(obj)}, args \in LightFadeInputs :
          FadeLight(light, args)

SpecCache == CacheInit /\ [][CacheNext]_vars

-----------------------------------------------------------------------------
(* Reading the wire of TheBus against the log *)

IsPrefix(s, t) == Len(s) <= Len(t) /\ s = SubSeq(t, 1, Len(s))

TheWire == wire[TheBus]

(* The bytes written between the moment call i took the lock and the      *)
(* moment the next call took it.                                          *)
SegEnd(i) == IF i < Len(log) THEN LogStart(log[i + 1]) ELSE Len(TheWire)
Seg(i) == SubSeq(TheWire, LogStart(log[i]) + 1, SegEnd(i))
FlushesOf(i) ==
    SelectSeq(flushAt[TheBus], LAMBDA f : f > LogStart(log[i]) /\ f <= SegEnd(i))

IsByte(v) == v \in 0..255
Returned(i, op) == OpOf(LogCall(log[i])) = op /\ LogRet(log[i]) = "ok"

(* C1: the wire is the concatenation, in the order the lock was taken, of  *)
(* the complete frames of the calls before the last one, each flushed     *)
(* once at its end, followed by a prefix of the last call's frame: no     *)
(* byte of another call lies between the first byte and the flush of a    *)
(* frame.                                                                  *)
C1_FramesSerialized ==
    /\ (log = <<>>) => (TheWire = <<>>)
    /\ \A i \in DOMAIN log :
          /\ (i = 1) => (LogStart(log[i]) = 0)
          /\ (i < Len(log)) => (LogRet(log[i]) = "ok")
          /\ IF LogRet(log[i]) = "ok"
                THEN /\ Seg(i) = WriteList(LogCall(log[i]))
                     /\ FlushesOf(i) = <<SegEnd(i)>>
                ELSE /\ IsPrefix(Seg(i), WriteList(LogCall(log[i])))
                     /\ Len(FlushesOf(i)) <= 1

C1_Witness ==
    /\ Len(log) >= 3
    /\ \E t, u \in Threads :
          /\ pc[t] = "write" /\ pos[t] >= 1
          /\ pc[u] = "acquire"

(* C2: a fade_rgb call with every argument in 0..255, once it is over, has *)
(* returned and has written exactly the 15 bytes addr, 1, step, delay, r,  *)
(* g, b and 8 zeros, then flushed once; an omitted step is 5, an omitted   *)
(* delay 0.                                                                *)
C2_FadeFrame ==
    \A i \in DOMAIN log :
        LET c == LogCall(log[i])
            step == IF StepOf(c) = Omitted THEN 5 ELSE StepOf(c)[1]
            delay == IF DelayOf(c) = Omitted THEN 0 ELSE DelayOf(c)[1]
        IN  (/\ OpOf(c) = "fade"
             /\ LogRet(log[i]) # "run"
             /\ \A k \in 1..3 : IsByte(RgbOf(c)[k])
             /\ IsByte(AddrOf(c)[1]) /\ IsByte(step) /\ IsByte(delay))
            => /\ LogRet(log[i]) = "ok"
               /\ Len(Seg(i)) = 15
               /\ Seg(i) = <<AddrOf(c)[1], 1, step, delay,
                             RgbOf(c)[1], RgbOf(c)[2], RgbOf(c)[3],
                             0, 0, 0, 0, 0, 0, 0, 0>>
               /\ FlushesOf(i) = <<LogStart(log[i]) + 15>>

C2_Witness ==
    \E i, j \in DOMAIN log :
        /\ Returned(i, "fade") /\ StepOf(LogCall(log[i])) = Omitted
        /\ DelayOf(LogCall(log[i])) = Omitted
        /\ Returned(j, "fade") /\ StepOf(LogCall(log[j])) # Omitted
        /\ DelayOf(LogCall(log[j])) # Omitted

(* C3: a stop call that returned wrote exactly the 15 bytes addr, 8,       *)
(* fading and 12 zeros, then flushed once; an omitted address is 255, an   *)
(* omitted fading flag 1.                                                  *)
C3_StopFrame ==
    \A i \in DOMAIN log :
        LET c == LogCall(log[i])
            addr == IF AddrOf(c) = Omitted THEN 255 ELSE AddrOf(c)[1]
            fading == IF FadingOf(c) = Omitted THEN 1 ELSE FadingOf(c)[1]
        IN  Returned(i, "stop")
            => /\ Len(Seg(i)) = 15
               /\ Seg(i) = <<addr, 8, fading, 0, 0, 0, 0, 0, 0, 0, 0, 0, 0, 0, 0>>
               /\ FlushesOf(i) = <<LogStart(log[i]) + 15>>

C3_Witness ==
    \E i, j \in DOMAIN log :
        /\ Returned(i, "stop") /\ AddrOf(LogCall(log[i])) = Omitted
        /\ FadingOf(LogCall(log[i])) = Omitted
        /\ Returned(j, "stop") /\ AddrOf(LogCall(log[j])) # Omitted
        /\ FadingOf(LogCall(log[j])) # Omitted

(* The sync frame with the address byte a. *)
SyncFrameTo(a) ==
    <<27, 27, 27, 27, 27, 27, 27, 27, 27, 27, 27, 27, 27, 27, 27, a>>

(* C4, as amended: a sync call that returned wrote exactly 16 bytes,       *)
(* fifteen of value 27 and the address byte, then flushed once; an         *)
(* omitted address is 0.                                                   *)
C4_SyncFrame ==
    \A i \in DOMAIN log :
        LET c == LogCall(log[i])
            addr == IF AddrOf(c) = Omitted THEN 0 ELSE AddrOf(c)[1]
        IN  Returned(i, "sync")
            => /\ Len(Seg(i)) = 16
               /\ Seg(i) = SyncFrameTo(addr)
               /\ FlushesOf(i) = <<LogStart(log[i]) + 16>>

C4_Witness ==
    \E i, j \in DOMAIN log :
        /\ i > 2 /\ Returned(i, "sync") /\ AddrOf(LogCall(log[i])) = Omitted
        /\ Returned(j, "sync") /\ AddrOf(LogCall(log[j])) # Omitted

(* C4 as claimed: an omitted address is the broadcast address 255. *)
C4_SyncDefaultsToBroadcast ==
    \A i \in DOMAIN log :
        LET c == LogCall(log[i])
            addr == IF AddrOf(c) = Omitted THEN 255 ELSE AddrOf(c)[1]
        IN  Returned(i, "sync")
            => /\ Len(Seg(i)) = 16
               /\ Seg(i) = SyncFrameTo(addr)

(* C5: the first 31 bytes on the wire are one sync frame and then the      *)
(* stop frame 255, 8, 1 and 12 zeros; the constructor has returned only    *)
(* when they are all there, and no thread but the constructing one is      *)
(* inside a handler before.                                                *)
C5_StartupSequence ==
    LET head == SubSeq(TheWire, 1, IF Len(TheWire) < 31 THEN Len(TheWire) ELSE 31)
    IN  /\ \E a \in 0..255 :
              IsPrefix(head, SyncFrameTo(a)
                             \o <<255, 8, 1, 0, 0, 0, 0, 0, 0, 0, 0, 0, 0, 0, 0>>)
        /\ (phase = "done") => (Len(TheWire) >= 31)
        /\ (Len(flushAt[TheBus]) >= 1) => (flushAt[TheBus][1] = 16)
        /\ (Len(flushAt[TheBus]) >= 2) => (flushAt[TheBus][2] = 31)
        /\ \A t \in Threads \ {MainThread} :
              (pc[t] # "idle") => (Len(TheWire) >= 31 /\ Len(flushAt[TheBus]) >= 2)

C5_Witness ==
    /\ phase = "done"
    /\ Len(TheWire) >= 31 + 15
    /\ \E i \in DOMAIN log : LogThread(log[i]) # MainThread /\ LogRet(log[i]) = "ok"

(* C6 as claimed: a fade_rgb call with a step, delay or colour component   *)
(* outside 0..255 that has failed left no byte on the wire, and the lock   *)
(* is free once no call is in progress.                                    *)
C6_RejectedBeforeAnyByte ==
    \A i \in DOMAIN log :
        (OpOf(LogCall(log[i])) = "fade" /\ LogRet(log[i]) = "raised")
        => /\ Len(Seg(i)) = 0
           /\ (\A t \in Threads : pc[t] \in {"idle", "acquire"}) => ~lock[TheBus]

-----------------------------------------------------------------------------
(* FnordFader claims *)

BlackWhite == <<<<0, 0, 0>>, <<255, 255, 255>>>>
Answered == result[1] # "none"
InUnit(value) == value # Omitted /\ value[1] >= 0 /\ value[1] <= Den

(* C8, as amended: on the palette [(0,0,0),(255,255,255)] getColor returns *)
(* (0,0,0) for 0.0, (255,255,255) for 1.0 and (127,127,127) for 0.5; on    *)
(* any palette and for any value in [0,1] each channel is                  *)
(* lower*fraction + upper*(1-fraction) truncated, lower and upper the      *)
(* entries at floor(position) and ceil(position), position =               *)
(* value*(len-1), fraction = position - floor(position).                   *)
C8_Interpolation ==
    /\ (colors = BlackWhite /\ Answered /\ query = Given(0))
          => result = <<"returned", <<0, 0, 0>>>>
    /\ (colors = BlackWhite /\ Answered /\ query = Given(Den))
          => result = <<"returned", <<255, 255, 255>>>>
    /\ (colors = BlackWhite /\ Answered /\ query = Given(Den \div 2))
          => result = <<"returned", <<127, 127, 127>>>>
    /\ (Len(colors) >= 1 /\ Answered /\ InUnit(query))
          => /\ result[1] = "returned"
             /\ \E lo, up \in 1..Len(colors) :
                   \* numerators over Den: position, and fraction
                   LET position == query[1] * (Len(colors) - 1)
                       fraction == position - (lo - 1) * Den
                   IN  /\ (lo - 1) * Den <= position /\ position < lo * Den
                       /\ (up - 1) * Den >= position /\ position > (up - 2) * Den
                       /\ \A ch \in 1..3 :
                             LET exact == colors[lo][ch] * fraction
                                          + colors[up][ch] * (Den - fraction)
                             IN  /\ result[2][ch] * Den <= exact
                                 /\ exact < (result[2][ch] + 1) * Den

C8_Witness ==
    /\ colors = BlackWhite
    /\ query = Given(Den \div 2)
    /\ result = <<"returned", <<127, 127, 127>>>>

(* C8 as claimed: (255,255,255) for 0.0 and (0,0,0) for 1.0. *)
C8_EndpointsInverted ==
    /\ (colors = BlackWhite /\ Answered /\ query = Given(0))
          => result = <<"returned", <<255, 255, 255>>>>
    /\ (colors = BlackWhite /\ Answered /\ query = Given(Den))
          => result = <<"returned", <<0, 0, 0>>>>

(* C9: with one colour in the palette getColor returns that colour for a   *)
(* value inside [0,1], a value outside it and no value at all; with an     *)
(* empty palette it raises and returns no colour.                          *)
C9_SingleAndEmptyPalette ==
    Answered =>
        /\ (Len(colors) = 1) => (result = <<"returned", colors[1]>>)
        /\ (Len(colors) = 0) => (result = <<"raised", <<>>>>)

C9_Witness ==
    /\ Len(colors) = 1
    /\ query # Omitted /\ query[1] > Den
    /\ result = <<"returned", colors[1]>>

-----------------------------------------------------------------------------
(* FnordCluster claims *)

LastOp == last[1]
LastCluster == last[2]
LastArg == last[3]
LastOutcome == last[4]
WireLenBefore(b) == last[5][b]
ClusterBefore == last[6]
LastRepeats == last[7]

Range(seq) == {seq[k] : k \in DOMAIN seq}

(* The lights a fade on these members reaches, depth first in insertion    *)
(* order, one entry per registration.                                      *)
RECURSIVE FlatLights(_, _)
FlatLights(members, fuel) ==
    IF members = <<>> THEN <<>>
    ELSE LET m == Head(members)
             first == IF IsLight(m) THEN <<m>>
                      ELSE IF fuel = 0 THEN <<>>
                      ELSE FlatLights(cluster[NumberOf(m)], fuel - 1)
         IN  first \o FlatLights(Tail(members), fuel)

(* The fade frames of those of the lights that sit on bus b. *)
RECURSIVE FramesOn(_, _, _, _, _)
FramesOn(lights, b, rgb, step, delay) ==
    IF lights = <<>> THEN <<>>
    ELSE (IF BusOf(Head(lights)) = b
             THEN <<NumberOf(Head(lights)), 1, step, delay, rgb[1], rgb[2], rgb[3],
                    0, 0, 0, 0, 0, 0, 0, 0>>
             ELSE <<>>)
         \o FramesOn(Tail(lights), b, rgb, step, delay)

(* C7: when FnordCluster.fade_rgb(r, g, b, step, delay) returns, every bus *)
(* has received, after what it held before, exactly one fade frame per     *)
(* registration of each of its lights under the cluster, nested clusters   *)
(* included, depth first in insertion order, each with the light's number  *)
(* and the given r, g, b, step, delay (5 and 0 when omitted) and each      *)
(* flushed, and nothing else. It is left by an exception only if an        *)
(* argument is no byte, a bus lock is held or the nesting is too deep.     *)
C7_ClusterFadeFansOut ==
    (LastOp = "fade") =>
        LET rgb == LastArg[1]
            step == IF LastArg[2] = Omitted THEN 5 ELSE LastArg[2][1]
            delay == IF LastArg[3] = Omitted THEN 0 ELSE LastArg[3][1]
        IN  /\ (LastOutcome = "ok") =>
                  \A b \in Buses :
                      LET frames == FramesOn(FlatLights(cluster[LastCluster], RecursionLimit),
                                             b, rgb, step, delay)
                          flushes == SelectSeq(flushAt[b],
                                               LAMBDA f : f > WireLenBefore(b))
                      IN  /\ SubSeq(wire[b], WireLenBefore(b) + 1, Len(wire[b])) = frames
                          /\ flushes = [k \in 1..(Len(frames) \div 15) |->
                                           WireLenBefore(b) + 15 * k]
            /\ (LastOutcome = "raised") =>
                  ~(IsByte(step) /\ IsByte(delay) /\ \A k \in 1..3 : IsByte(rgb[k]))
            /\ (LastOutcome = "blocked") => \E b \in Buses : lock[b]
            /\ (LastOutcome = "recursion") =>
                  \E k \in DOMAIN cluster[LastCluster] : ~IsLight(cluster[LastCluster][k])

C7_Witness ==
    /\ LastOp = "fade" /\ LastOutcome = "ok"
    /\ LastArg[2] # Omitted
    /\ \E k \in DOMAIN cluster[LastCluster] : ~IsLight(cluster[LastCluster][k])
    /\ \A b \in Buses : Len(wire[b]) = WireLenBefore(b) + 15

(* C10: removeLight with a target that is not in the member list raises,   *)
(* leaves every member list as it was and writes no byte to any bus; the   *)
(* target is still no member, so the same call fails the same way again.   *)
C10_RemoveAbsentFails ==
    (LastOp = "remove" /\ LastArg \notin Range(ClusterBefore[LastCluster])) =>
        /\ LastOutcome = "raised"
        /\ cluster = ClusterBefore
        /\ \A b \in Buses : Len(wire[b]) = WireLenBefore(b)
        /\ ListRemove(cluster[LastCluster], LastArg)[2] = "raised"

C10_Witness ==
    /\ LastOp = "remove" /\ LastOutcome = "raised"
    /\ LastRepeats
    /\ Len(cluster[LastCluster]) = 2
    /\ cluster = ClusterBefore


-----------------------------------------------------------------------------
(* Reading last in SpecCache *)

LastObject == last[2]
WireBefore == last[5][1]
FlushBefore == last[5][2]
StoresBefore == last[6]
LastReturn == last[7]

WroteNothing == wire = WireBefore /\ flushAt = FlushBefore
Untouched(b) == wire[b] = WireBefore[b] /\ flushAt[b] = FlushBefore[b]
OneFrame(b, frame) ==
    /\ wire[b] = WireBefore[b] \o frame
    /\ flushAt[b] = Append(FlushBefore[b], Len(wire[b]))
    /\ \A other \in Buses \ {b} : Untouched(other)

(* The frame of a fade to rgb with step 5 and delay 0 *)
PlainFade(addr, rgb) == <<addr, 1, 5, 0>> \o rgb \o <<0, 0, 0, 0, 0, 0, 0, 0>>

StagedOf(light) == staged[2][BusOf(light)][NumberOf(light) + 1]

(* C11: a light's stored colour is the argument of its last setRGB call,   *)
(* whatever update, fade_rgb and black calls and wire traffic came since,  *)
(* and getRGB returns it; setRGB and getRGB write nothing; update sends    *)
(* the stored colour.                                                      *)
C11_LightColourKept ==
    /\ \A b \in Buses, x \in 1..LIGHTCOUNT : lightRGB[b][x] = staged[2][b][x]
    /\ (IsLight(LastObject) /\ LastOp = "getRGB") =>
          (LastReturn = StagedOf(LastObject) /\ WroteNothing)
    /\ (IsLight(LastObject) /\ LastOp = "setRGB") =>
          (StagedOf(LastObject) = LastArg /\ WroteNothing)
    /\ (IsLight(LastObject) /\ LastOp = "update" /\ LastOutcome = "ok") =>
          OneFrame(BusOf(LastObject),
                   PlainFade(NumberOf(LastObject), StagedOf(LastObject)))

C11_Witness ==
    /\ IsLight(LastObject) /\ LastOp = "getRGB"
    /\ LastReturn # NoColour
    /\ Len(wire[BusOf(LastObject)]) > Len(SyncOut(DefaultSyncAddr)) + Len(StopOut(DefaultStopAddr, DefaultFading))

(* C12: getFnordLight(n) returns the light with address n for every n in   *)
(* 0..LIGHTCOUNT-1 and fails for every other n, the negative ones and      *)
(* LIGHTCOUNT included.                                                    *)
C12_GetLightOutOfRange ==
    (LastOp = "getFnordLight") =>
        IF LastArg \in 0..(LIGHTCOUNT - 1)
            THEN LastOutcome = "ok" /\ LastReturn = Light(BusOf(LastObject), LastArg)
            ELSE LastOutcome = "raised"

(* The clusters found in cluster c, in its members, and so on, `fuel`      *)
(* levels down.                                                            *)
ClusterMembers(c) == {NumberOf(cluster[c][k]) : k \in {j \in DOMAIN cluster[c] : ~IsLight(cluster[c][j])}}
RECURSIVE ClustersBelow(_, _)
ClustersBelow(c, fuel) ==
    IF fuel = 0 THEN {}
    ELSE ClusterMembers(c) \cup UNION {ClustersBelow(d, fuel - 1) : d \in ClusterMembers(c)}

(* C13: no cluster holds itself, directly or through other clusters:       *)
(* registerLight refuses such a target, and so no fade_rgb runs into the   *)
(* recursion limit.                                                        *)
C13_NoClusterInsideItself ==
    /\ \A c \in ClusterIds : c \notin ClustersBelow(c, Cardinality(ClusterIds))
    /\ LastOutcome # "recursion"

(* Bus b received these frames, each flushed at its end, and nothing else. *)
FramesSent(b, frames) ==
    /\ wire[b] = WireBefore[b] \o frames
    /\ flushAt[b] = FlushBefore[b] \o
                       [k \in 1..(Len(frames) \div 15) |-> Len(WireBefore[b]) + 15 * k]

(* C14: black() sends what a fade to (0, 0, 0) with step 5 and delay 0     *)
(* sends: FnordBus.black(a) the frame a, 1, 5, 0, 0, 0, 0 and 8 zeros, a   *)
(* being 255 when omitted; FnordLight.black() that frame with its own      *)
(* number on its own bus; FnordCluster.black() the black() of every        *)
(* member in insertion order.                                              *)
C14_BlackIsFadeToBlack ==
    (LastOp = "black" /\ LastOutcome = "ok") =>
        IF IsBus(LastObject)
            THEN OneFrame(BusOf(LastObject),
                          PlainFade(IF LastArg = Omitted THEN 255 ELSE LastArg[1], <<0, 0, 0>>))
        ELSE IF IsLight(LastObject)
            THEN OneFrame(BusOf(LastObject), PlainFade(NumberOf(LastObject), <<0, 0, 0>>))
        ELSE \A b \in Buses :
                FramesSent(b, FramesOn(FlatLights(cluster[NumberOf(LastObject)], RecursionLimit),
                                       b, <<0, 0, 0>>, 5, 0))

C14_Witness ==
    /\ LastOp = "black" /\ LastOutcome = "ok"
    /\ ~IsBus(LastObject) /\ ~IsLight(LastObject)
    /\ Len(wire[1]) = Len(WireBefore[1]) + 30
    /\ Len(wire[2]) = Len(WireBefore[2]) + 15

(* C15: update() sends the stored colour of the object it is called on,    *)
(* with step 5 and delay 0, and changes no stored colour: FnordBus.update  *)
(* one fade frame to address 255, FnordLight.update one fade frame to the  *)
(* light's number on its bus, FnordCluster.update a fade to the cluster's  *)
(* colour on every member in insertion order, whatever the members store.  *)
C15_UpdateSendsOwnColour ==
    (LastOp = "update") =>
        /\ <<busRGB, lightRGB, clusterRGB>> = StoresBefore
        /\ (LastOutcome = "ok") =>
              IF IsBus(LastObject)
                  THEN OneFrame(BusOf(LastObject),
                                PlainFade(255, StoresBefore[1][BusOf(LastObject)]))
              ELSE IF IsLight(LastObject)
                  THEN OneFrame(BusOf(LastObject),
                                PlainFade(NumberOf(LastObject),
                                          StoresBefore[2][BusOf(LastObject)][NumberOf(LastObject) + 1]))
              ELSE \A b \in Buses :
                      FramesSent(b, FramesOn(FlatLights(cluster[NumberOf(LastObject)],
                                                        RecursionLimit),
                                             b, StoresBefore[3][NumberOf(LastObject)], 5, 0))

C15_Witness ==
    /\ LastOp = "update" /\ LastOutcome = "ok"
    /\ ~IsBus(LastObject) /\ ~IsLight(LastObject)
    /\ clusterRGB[NumberOf(LastObject)] # NoColour
    /\ Len(wire[1]) = Len(WireBefore[1]) + 30
    /\ Len(wire[2]) = Len(WireBefore[2]) + 15

(* C16: when FnordCluster.fade_rgb is left by an exception, the lights     *)
(* reached before the failing member have each received their complete,    *)
(* flushed frame, in order; the bus of the failing light holds at most the *)
(* leading bytes of its frame; no later member has received anything.      *)
C16_FadeStopsAtFirstFailure ==
    (LastOp = "fade" /\ LastOutcome \in {"raised", "recursion"}) =>
        LET rgb == LastArg[1]
            step == IF LastArg[2] = Omitted THEN 5 ELSE LastArg[2][1]
            delay == IF LastArg[3] = Omitted THEN 0 ELSE LastArg[3][1]
            flat == FlatLights(cluster[LastCluster], RecursionLimit)
            New(b) == SubSeq(wire[b], WireLenBefore(b) + 1, Len(wire[b]))
            Flushes(b) == SelectSeq(flushAt[b], LAMBDA f : f > WireLenBefore(b))
        IN  \E j \in 0..Len(flat) :
               /\ (LastOutcome = "raised") => j < Len(flat)
               /\ \A b \in Buses :
                     LET complete == FramesOn(SubSeq(flat, 1, j), b, rgb, step, delay)
                     IN  /\ Flushes(b) = [k \in 1..(Len(complete) \div 15) |->
                                             WireLenBefore(b) + 15 * k]
                         /\ IF LastOutcome = "raised" /\ BusOf(flat[j + 1]) = b
                               THEN /\ Len(New(b)) < Len(complete) + 15
                                    /\ IsPrefix(New(b),
                                                FramesOn(SubSeq(flat, 1, j + 1), b,
                                                         rgb, step, delay))
                                    /\ IsPrefix(complete, New(b))
                               ELSE New(b) = complete

C16_Witness ==
    /\ LastOp = "fade" /\ LastOutcome \in {"raised", "recursion"}
    /\ Len(cluster[LastCluster]) = 2
    /\ \E b \in Buses : Len(wire[b]) >= WireLenBefore(b) + 15

(* C18: the member list is a list with no check for duplicates:            *)
(* registerLight always appends its target at the end; a fade_rgb that     *)
(* returns has sent each light one frame per time the light is listed;     *)
(* removeLight of a member takes out the first entry equal to the target   *)
(* and nothing else, the other entries keeping their order.                *)
C18_MembershipIsAList ==
    /\ (LastOp = "register") =>
          /\ LastOutcome = "ok"
          /\ cluster = [ClusterBefore EXCEPT ![LastCluster] = Append(@, LastArg)]
    /\ (LastOp = "remove" /\ LastArg \in Range(ClusterBefore[LastCluster])) =>
          LET before == ClusterBefore[LastCluster]
          IN  /\ LastOutcome = "ok"
              /\ Len(cluster[LastCluster]) = Len(before) - 1
              /\ \A c \in ClusterIds \ {LastCluster} : cluster[c] = ClusterBefore[c]
              /\ \E i \in DOMAIN before :
                    /\ before[i] = LastArg
                    /\ \A j \in 1..(i - 1) : before[j] # LastArg
                    /\ \A k \in DOMAIN cluster[LastCluster] :
                          cluster[LastCluster][k] = IF k < i THEN before[k] ELSE before[k + 1]
    /\ (LastOp = "fade" /\ LastOutcome = "ok") =>
          \A light \in {target \in TargetInputs : IsLight(target)} :
              LET b == BusOf(light)
                  flat == FlatLights(cluster[LastCluster], RecursionLimit)
                  frames == (Len(wire[b]) - WireLenBefore(b)) \div 15
              IN  Cardinality({k \in 1..frames :
                                  wire[b][WireLenBefore(b) + 15 * (k - 1) + 1] = NumberOf(light)})
                      = Cardinality({k \in DOMAIN flat : flat[k] = light})

C18_Witness ==
    /\ LastOp = "remove" /\ LastOutcome = "ok"
    /\ Len(ClusterBefore[LastCluster]) = 3
    /\ ClusterBefore[LastCluster][1] = LastArg
    /\ ClusterBefore[LastCluster][2] # LastArg
    /\ ClusterBefore[LastCluster][3] = LastArg

-----------------------------------------------------------------------------
(* The lock of TheBus in Spec *)

InHandler(t) == pc[t] \in {"write", "release"}

(* C17: the lock is held by at most one handler and by nobody else: when   *)
(* no handler is between its acquire and its release the lock is free, so  *)
(* a caller waiting in acquire() waits for a running handler only.         *)
C17_GuardFreeWhenIdle ==
    /\ Cardinality({t \in Threads : InHandler(t)}) <= 1
    /\ (\A t \in Threads : pc[t] = "idle") => ~lock[TheBus]
    /\ \A t \in Threads :
          (pc[t] = "acquire" /\ lock[TheBus]) => \E u \in Threads : InHandler(u)

(* C19: a handler left by an exception has released the lock: once a call  *)
(* has raised, the lock is held only while another handler is running.     *)
C19_GuardReleasedOnFailure ==
    \A i \in DOMAIN log :
        (LogRet(log[i]) = "raised" /\ lock[TheBus]) =>
            \E t \in Threads : InHandler(t) /\ EntryOf(t) > i

-----------------------------------------------------------------------------
(* Every object that stores a colour, and the colour it stores in `stores` *)
ColourObjects ==
    {BusRef(b) : b \in Buses} \cup {Light(b, n) : b \in Buses, n \in 0..(LIGHTCOUNT - 1)}
        \cup {ClusterRef(c) : c \in ClusterIds}

ColourIn(stores, obj) ==
    IF IsBus(obj) THEN stores[1][BusOf(obj)]
    ELSE IF IsLight(obj) THEN stores[2][BusOf(obj)][NumberOf(obj) + 1]
    ELSE stores[3][NumberOf(obj)]

(* C20: every bus, light and cluster stores a colour of its own: it is     *)
(* (0, 0, 0) until the object's own setRGB is called and the argument of   *)
(* the object's last setRGB call after; getRGB returns it; setRGB changes  *)
(* the colour of the object it is called on and of no other, and writes    *)
(* nothing.                                                                *)
C20_ColoursPerObject ==
    /\ \A obj \in ColourObjects :
          ColourIn(<<busRGB, lightRGB, clusterRGB>>, obj) = ColourIn(staged, obj)
    /\ (LastOp = "none") =>
          \A obj \in ColourObjects :
              ColourIn(<<busRGB, lightRGB, clusterRGB>>, obj) = <<0, 0, 0>>
    /\ (LastOp = "setRGB") =>
          /\ WroteNothing
          /\ \A obj \in ColourObjects :
                ColourIn(<<busRGB, lightRGB, clusterRGB>>, obj)
                    = IF obj = LastObject THEN LastArg ELSE ColourIn(StoresBefore, obj)
    /\ (LastOp = "getRGB") =>
          /\ WroteNothing
          /\ LastReturn = ColourIn(staged, LastObject)

C20_Witness ==
    /\ LastOp = "getRGB" /\ LastObject = Light(2, 3)
    /\ LastReturn = <<0, 0, 0>>
    /\ lightRGB[1][4] # NoColour
    /\ busRGB[1] # NoColour

=============================================================================
